---- MODULE Spec2Model ----
(***************************************************************************)
(* Model of Data Generation/Refactored/retrieve_matches.py: the command    *)
(* line driver main(), the retrieval loop get_match_records() and the row  *)
(* extraction get_team_stats().                                            *)
(*                                                                         *)
(* Text that the program parses (sys.argv) is a sequence of one-character  *)
(* strings; text that the program only writes (CSV fields) is a string.    *)
(***************************************************************************)
EXTENDS Integers, Sequences, FiniteSets, TLC

VARIABLES
  argv,          \* sys.argv, argv[1] is the program name
  fs,            \* the file system: path -> [exists, rows]
  fs0,           \* the file system when the process started
  world,         \* the remote service: which match ids are acceptable
  pc,            \* position of the single thread of control
  error,         \* exception that ended the process, "none" while there is none
  filename,      \* main / get_match_records local
  start_id,      \* main / get_match_records local
  max_records,   \* main / get_match_records local
  sleep_time,    \* main / get_match_records local
  read_records,  \* get_match_records local
  current_id,    \* get_match_records local
  match,         \* get_match_records local: the last fetched Match
  bteam_info,    \* get_match_records local
  rteam_info,    \* get_match_records local
  last_print,    \* the last line printed to standard output
  fetch_log,     \* ids passed to cassiopeia.get_match, in call order
  accept_log,    \* ids of the fetched matches that took the accepting branch
  sleeps,        \* number of time.sleep calls
  team_arg,      \* get_team_stats called on its own: the selector
  team_result    \* get_team_stats called on its own: the outcome

vars == <<argv, fs, fs0, world, pc, error, filename, start_id, max_records,
          sleep_time, read_records, current_id, match, bteam_info, rteam_info,
          last_print, fetch_log, accept_log, sleeps, team_arg, team_result>>

-----------------------------------------------------------------------------
(* Bounds *)

\* The retrieval loop has no lower bound on the id; the model stops fetching
\* once current_id has gone MaxStepsDown below the highest start id.
MaxStepsDown == 3

-----------------------------------------------------------------------------
(* Text conversions *)

DigitChars == <<"0", "1", "2", "3", "4", "5", "6", "7", "8", "9">>

DigitValue(c) == CHOOSE d \in 0..9 : DigitChars[d + 1] = c

IsDigit(c) == \E d \in 0..9 : DigitChars[d + 1] = c

RECURSIVE DigitsToNat(_)
DigitsToNat(s) ==
  IF Len(s) = 0 THEN 0
  ELSE 10 * DigitsToNat(SubSeq(s, 1, Len(s) - 1)) + DigitValue(s[Len(s)])

AllDigits(s) == Len(s) >= 1 /\ \A i \in 1..Len(s) : IsDigit(s[i])

\* int(text) over the characters of the command lines modelled here (digits,
\* signs, letters): an optional sign followed by at least one decimal digit
\* parses; anything else, the empty text included, raises ValueError.
IntParses(s) ==
  IF Len(s) >= 1 /\ s[1] \in {"-", "+"} THEN AllDigits(Tail(s)) ELSE AllDigits(s)

IntOf(s) ==
  IF s[1] = "-" THEN 0 - DigitsToNat(Tail(s))
  ELSE IF s[1] = "+" THEN DigitsToNat(Tail(s))
  ELSE DigitsToNat(s)

RECURSIVE NatToStr(_)
NatToStr(n) ==
  IF n < 10 THEN DigitChars[n + 1]
  ELSE NatToStr(n \div 10) \o DigitChars[(n % 10) + 1]

\* str(value) as csv.writer applies it to every field of a row.  A Python
\* value is a record [t, v] with t its type.
PyInt(n) == [t |-> "int", v |-> n]
PyStr(s) == [t |-> "str", v |-> s]
PyBool(b) == [t |-> "bool", v |-> b]

StrOf(x) ==
  CASE x.t = "int" -> (IF x.v < 0 THEN "-" \o NatToStr(0 - x.v) ELSE NatToStr(x.v))
    [] x.t = "bool" -> (IF x.v THEN "True" ELSE "False")
    [] x.t = "str" -> x.v

\* csv.writer.writerow on a file opened for append: one more row at the end.
WriteRow(rows, row) == Append(rows, [i \in 1..Len(row) |-> StrOf(row[i])])

Header ==
  <<PyStr("id"), PyStr("version"), PyStr("side"), PyStr("win"),
    PyStr("ban1"), PyStr("ban2"), PyStr("ban3"), PyStr("ban4"), PyStr("ban5"),
    PyStr("champion1"), PyStr("champion2"), PyStr("champion3"),
    PyStr("champion4"), PyStr("champion5"),
    PyStr("tower_kills"), PyStr("inhibitor_kills"), PyStr("dragon_kills"),
    PyStr("rift_herald_kills"), PyStr("baron_kills"), PyStr("first_tower"),
    PyStr("first_inhibitor"), PyStr("first_dragon"),
    PyStr("first_rift_herald"), PyStr("first_baron")>>

HeaderRow == [i \in 1..Len(Header) |-> StrOf(Header[i])]

-----------------------------------------------------------------------------
(* Data model: Match and Team as the cassiopeia client exposes them *)

NoneValue == [isNone |-> TRUE, name |-> "None"]

Champion(n) == [isNone |-> FALSE, name |-> n]

Team(side, win, bans) ==
  [side |-> [name |-> side], win |-> win, bans |-> bans,
   participants |->
     [i \in 1..5 |-> [champion |-> Champion(<<"Garen", "Lee Sin", "Orianna",
                                               "Ezreal", "Thresh">>[i])]],
   tower_kills |-> IF win THEN 9 ELSE 2,
   inhibitor_kills |-> IF win THEN 1 ELSE 0,
   dragon_kills |-> IF win THEN 3 ELSE 1,
   rift_herald_kills |-> IF win THEN 1 ELSE 0,
   baron_kills |-> IF win THEN 1 ELSE 0,
   first_tower |-> win, first_inhibitor |-> win, first_dragon |-> ~win,
   first_rift_herald |-> win, first_baron |-> win]

Match(id, exists, mode, queue, blue_bans, red_bans) ==
  [id |-> id, version |-> "9.4.1", exists |-> exists, mode |-> mode,
   queue |-> queue,
   blue_team |-> Team("blue", TRUE, blue_bans),
   red_team |-> Team("red", FALSE, red_bans)]

GameModes == {"classic", "aram"}

Queues == {"ranked_solo_fives", "normal_draft"}

\* Ban sequences the service returns in the retrieval runs: five slots with
\* two of them empty, and the three slots of the six-ban draft.
ServiceBans ==
  {<<Champion("Zed"), NoneValue, Champion("Yasuo"), NoneValue, Champion("Lux")>>,
   <<Champion("Zed"), Champion("Yasuo"), Champion("Lux")>>}

\* Every ban sequence of up to five slots, each slot a champion or empty.
BanSlots == {Champion("Zed"), NoneValue}

AllBans == UNION {[1..n -> BanSlots] : n \in 0..5}

NoMatch == Match(0, FALSE, "none", "none", <<>>, <<>>)

-----------------------------------------------------------------------------
(* get_team_stats, lines 10-36 *)

TeamStats(team) ==
  <<PyInt(team.tower_kills), PyInt(team.inhibitor_kills),
    PyInt(team.dragon_kills), PyInt(team.rift_herald_kills),
    PyInt(team.baron_kills), PyBool(team.first_tower),
    PyBool(team.first_inhibitor), PyBool(team.first_dragon),
    PyBool(team.first_rift_herald), PyBool(team.first_baron)>>

BanNames(bans) ==
  [i \in 1..Len(bans) |-> IF ~bans[i].isNone THEN PyStr(bans[i].name) ELSE PyStr("")]

PlayerNames(participants) ==
  [i \in 1..Len(participants) |-> PyStr(participants[i].champion.name)]

TeamRow(m, team) ==
  <<PyInt(m.id), PyStr(m.version), PyStr(team.side.name), PyBool(team.win)>>
    \o BanNames(team.bans) \o PlayerNames(team.participants) \o TeamStats(team)

\* Variant of get_team_stats: the two selectors resolve to the wrong teams.
get_team_stats_SidesSwapped(team, m) ==
  IF team = "red" THEN [raised |-> "none", value |-> TeamRow(m, m.blue_team)]
  ELSE IF team = "blue" THEN [raised |-> "none", value |-> TeamRow(m, m.red_team)]
  ELSE [raised |-> "ValueError", value |-> <<>>]

\* The outcome of a call: the exception raised ("none" when it returns) and
\* the returned list.
get_team_stats(team, m) ==
  IF team = "red" THEN [raised |-> "none", value |-> TeamRow(m, m.red_team)]
  ELSE IF team = "blue" THEN [raised |-> "none", value |-> TeamRow(m, m.blue_team)]
  ELSE [raised |-> "ValueError", value |-> <<>>]

-----------------------------------------------------------------------------
(* The environment of a run: command line, file system, remote service *)

ProgName == <<"r", "m">>

Paths == {<<"a">>, <<"b">>}

StartTexts == {<<"1", "0">>, <<"9">>, <<"x">>, <<"-">>}

CountTexts == {<<"0">>, <<"1">>, <<"2">>, <<"-", "1">>, <<"1", "x">>}

CommandLines ==
  {<<ProgName, f, s, n>> : f \in Paths, s \in StartTexts, n \in CountTexts}
    \cup {<<ProgName>>, <<ProgName, <<"a">>, <<"9">>>>,
          <<ProgName, <<"a">>, <<"9">>, <<"1">>, <<"1">>>>}

TopId == IntOf(<<"1", "0">>)

IdLo == TopId - MaxStepsDown

Ids == IdLo..TopId

Absent == [exists |-> FALSE, rows |-> <<>>]

\* What an earlier run of the program left behind.
EarlierRows ==
  LET m == Match(TopId + 1, TRUE, "classic", "ranked_solo_fives",
                 <<NoneValue, NoneValue, NoneValue, NoneValue, NoneValue>>,
                 <<NoneValue, NoneValue, NoneValue, NoneValue, NoneValue>>)
  IN WriteRow(WriteRow(WriteRow(<<>>, Header), TeamRow(m, m.blue_team)),
              TeamRow(m, m.red_team))

FileSystems ==
  {[p \in Paths |-> Absent],
   [p \in Paths |-> IF p = <<"b">> THEN [exists |-> TRUE, rows |-> EarlierRows]
                    ELSE Absent]}

\* The matches the service can answer a fetch of id with: an acceptable id
\* yields an existing classic ranked-solo match, any other id a missing match
\* or one of another mode or queue.
Responses(id, acceptable) ==
  IF acceptable
  THEN {Match(id, TRUE, "classic", "ranked_solo_fives", bb, rb) :
          bb \in ServiceBans, rb \in ServiceBans}
  ELSE {Match(id, FALSE, "none", "none", <<>>, <<>>)}
         \cup {Match(id, TRUE, gm, q, <<>>, <<>>) :
                 gm \in GameModes, q \in Queues \ {"ranked_solo_fives"}}
         \cup {Match(id, TRUE, gm, "ranked_solo_fives", <<>>, <<>>) :
                 gm \in GameModes \ {"classic"}}

Init ==
  /\ argv \in CommandLines
  /\ fs \in FileSystems
  /\ fs0 = fs
  /\ world \in [Ids -> BOOLEAN]
  /\ pc = "main"
  /\ error = "none"
  /\ filename = <<>>
  /\ start_id = 0
  /\ max_records = 0
  /\ sleep_time = 0
  /\ read_records = 0
  /\ current_id = 0
  /\ match = NoMatch
  /\ bteam_info = <<>>
  /\ rteam_info = <<>>
  /\ last_print = "nothing"
  /\ fetch_log = <<>>
  /\ accept_log = <<>>
  /\ sleeps = 0
  /\ team_arg = "unused"
  /\ team_result = [raised |-> "none", value |-> <<>>]

-----------------------------------------------------------------------------
(* main, lines 107-126 *)

SleepSeconds == 3

loop_locals == <<read_records, current_id, match, bteam_info, rteam_info>>

history == <<fetch_log, accept_log, sleeps>>

environment == <<argv, fs0, world, team_arg, team_result>>

main_locals == <<filename, start_id, max_records, sleep_time>>

Raise(e) == pc' = "exited" /\ error' = e

\* line 108
ArgCountOk(av) == Len(av) = 4

\* lines 112-118
ArgsParse(av) == IntParses(av[3]) /\ IntParses(av[4])

\* Variant of PathExists: the existence check is lost.
PathExists_Never(files, f) == FALSE

\* line 121, os.path.exists
PathExists(files, f) == files[f].exists

MainArgCountError ==
  /\ pc = "main"
  /\ ~ArgCountOk(argv)
  /\ Raise("ValueError")
  /\ UNCHANGED <<fs, main_locals, loop_locals, last_print, history, environment>>

MainParseError ==
  /\ pc = "main"
  /\ ArgCountOk(argv)
  /\ ~ArgsParse(argv)
  /\ Raise("ValueError")
  /\ filename' = argv[2]
  /\ start_id' = IF IntParses(argv[3]) THEN IntOf(argv[3]) ELSE start_id
  /\ UNCHANGED <<fs, max_records, sleep_time, loop_locals, last_print, history,
                 environment>>

MainFileExistsError ==
  /\ pc = "main"
  /\ ArgCountOk(argv)
  /\ ArgsParse(argv)
  /\ PathExists(fs, argv[2])
  /\ Raise("OSError")
  /\ filename' = argv[2]
  /\ start_id' = IntOf(argv[3])
  /\ max_records' = IntOf(argv[4])
  /\ sleep_time' = SleepSeconds
  /\ UNCHANGED <<fs, loop_locals, last_print, history, environment>>

\* lines 124-125 and 57-58: the creation notice, then get_match_records is
\* entered and initialises its counters.
MainCallGetMatchRecords ==
  /\ pc = "main"
  /\ ArgCountOk(argv)
  /\ ArgsParse(argv)
  /\ ~PathExists(fs, argv[2])
  /\ filename' = argv[2]
  /\ start_id' = IntOf(argv[3])
  /\ max_records' = IntOf(argv[4])
  /\ sleep_time' = SleepSeconds
  /\ last_print' = "creating"
  /\ read_records' = 0
  /\ current_id' = IntOf(argv[3])
  /\ pc' = "while"
  /\ UNCHANGED <<fs, error, match, bteam_info, rteam_info, history, environment>>

\* line 126, after get_match_records has returned
MainSuccess ==
  /\ pc = "return"
  /\ last_print' = "success"
  /\ pc' = "exited"
  /\ UNCHANGED <<fs, error, main_locals, loop_locals, history, environment>>

-----------------------------------------------------------------------------
(* get_match_records, lines 57-91 *)

\* Variant of LoopCondition: the comparison is off by one.
LoopCondition_OffByOne(records, target) == records <= target

\* line 59
LoopCondition(records, target) == records < target

\* Variant of Branch: the two criteria are joined by "and".
Branch_AndForOr(m) ==
  IF ~m.exists THEN "missing"
  ELSE IF m.mode # "classic" /\ m.queue # "ranked_solo_fives" THEN "criteria"
  ELSE "accept"

\* lines 64-68: the branch a fetched match takes
Branch(m) ==
  IF ~m.exists THEN "missing"
  ELSE IF m.mode # "classic" \/ m.queue # "ranked_solo_fives" THEN "criteria"
  ELSE "accept"

\* Variant of HeaderDue: the header is written at every accepted match.
HeaderDue_Always(records) == records >= 0

\* line 76
HeaderDue(records) == records = 0

\* Variant of OpenAppend: mode 'w+', which empties the file.
OpenAppend_Truncate(files, f) == [files EXCEPT ![f] = [exists |-> TRUE, rows |-> <<>>]]

\* open(filename, 'a+'): the file is created when it is missing and is
\* written at its end.
OpenAppend(files, f) == [files EXCEPT ![f] = [exists |-> TRUE, rows |-> @.rows]]

WhileTest ==
  /\ pc = "while"
  /\ pc' = IF LoopCondition(read_records, max_records) THEN "sleep" ELSE "return"
  /\ UNCHANGED <<fs, error, main_locals, loop_locals, last_print, history,
                 environment>>

\* Variant of Sleep: no pause after an accepted match.
Sleep_SkippedAfterAccept ==
  /\ pc = "sleep"
  /\ sleeps' = IF last_print = "added" THEN sleeps ELSE sleeps + 1
  /\ pc' = "get_match"
  /\ UNCHANGED <<fs, error, main_locals, loop_locals, last_print, fetch_log,
                 accept_log, environment>>

\* line 61
Sleep ==
  /\ pc = "sleep"
  /\ sleeps' = sleeps + 1
  /\ pc' = "get_match"
  /\ UNCHANGED <<fs, error, main_locals, loop_locals, last_print, fetch_log,
                 accept_log, environment>>

\* line 63
GetMatch ==
  /\ pc = "get_match"
  /\ current_id >= IdLo
  /\ match' \in Responses(current_id, world[current_id])
  /\ fetch_log' = Append(fetch_log, current_id)
  /\ pc' = "filter"
  /\ UNCHANGED <<fs, error, main_locals, read_records, current_id, bteam_info,
                 rteam_info, last_print, accept_log, sleeps, environment>>

\* lines 64-65
RejectMissing ==
  /\ pc = "filter"
  /\ Branch(match) = "missing"
  /\ last_print' = "does not exist"
  /\ pc' = "dec"
  /\ UNCHANGED <<fs, error, main_locals, loop_locals, history, environment>>

\* lines 66-67
RejectCriteria ==
  /\ pc = "filter"
  /\ Branch(match) = "criteria"
  /\ last_print' = "does not match criteria"
  /\ pc' = "dec"
  /\ UNCHANGED <<fs, error, main_locals, loop_locals, history, environment>>

\* lines 68-69
Accept ==
  /\ pc = "filter"
  /\ Branch(match) = "accept"
  /\ last_print' = "added"
  /\ accept_log' = Append(accept_log, match.id)
  /\ pc' = "open"
  /\ UNCHANGED <<fs, error, main_locals, loop_locals, fetch_log, sleeps,
                 environment>>

\* line 73
Open ==
  /\ pc = "open"
  /\ fs' = OpenAppend(fs, filename)
  /\ pc' = "header"
  /\ UNCHANGED <<error, main_locals, loop_locals, last_print, history,
                 environment>>

\* lines 76-81
WriteHeader ==
  /\ pc = "header"
  /\ fs' = IF HeaderDue(read_records)
           THEN [fs EXCEPT ![filename].rows = WriteRow(@, Header)]
           ELSE fs
  /\ pc' = "blue"
  /\ UNCHANGED <<error, main_locals, loop_locals, last_print, history,
                 environment>>

\* lines 84-85
WriteBlue ==
  /\ pc = "blue"
  /\ LET r == get_team_stats("blue", match)
     IN IF r.raised # "none"
        THEN Raise(r.raised) /\ UNCHANGED <<fs, bteam_info>>
        ELSE /\ bteam_info' = r.value
             /\ fs' = [fs EXCEPT ![filename].rows = WriteRow(@, r.value)]
             /\ pc' = "red"
             /\ UNCHANGED error
  /\ UNCHANGED <<main_locals, read_records, current_id, match, rteam_info,
                 last_print, history, environment>>

\* lines 88-89; the file is closed when the with block ends
WriteRed ==
  /\ pc = "red"
  /\ LET r == get_team_stats("red", match)
     IN IF r.raised # "none"
        THEN Raise(r.raised) /\ UNCHANGED <<fs, rteam_info>>
        ELSE /\ rteam_info' = r.value
             /\ fs' = [fs EXCEPT ![filename].rows = WriteRow(@, r.value)]
             /\ pc' = "inc"
             /\ UNCHANGED error
  /\ UNCHANGED <<main_locals, read_records, current_id, match, bteam_info,
                 last_print, history, environment>>

\* line 90
IncRecords ==
  /\ pc = "inc"
  /\ read_records' = read_records + 1
  /\ pc' = "dec"
  /\ UNCHANGED <<fs, error, main_locals, current_id, match, bteam_info,
                 rteam_info, last_print, history, environment>>

\* Variant of DecId: the decrement sits in the rejecting branches only.
DecId_SkippedOnAccept ==
  /\ pc = "dec"
  /\ current_id' = IF last_print = "added" THEN current_id ELSE current_id - 1
  /\ pc' = "while"
  /\ UNCHANGED <<fs, error, main_locals, read_records, match, bteam_info,
                 rteam_info, last_print, history, environment>>

\* line 91
DecId ==
  /\ pc = "dec"
  /\ current_id' = current_id - 1
  /\ pc' = "while"
  /\ UNCHANGED <<fs, error, main_locals, read_records, match, bteam_info,
                 rteam_info, last_print, history, environment>>

Next ==
  \/ MainArgCountError
  \/ MainParseError
  \/ MainFileExistsError
  \/ MainCallGetMatchRecords
  \/ WhileTest
  \/ Sleep
  \/ GetMatch
  \/ RejectMissing
  \/ RejectCriteria
  \/ Accept
  \/ Open
  \/ WriteHeader
  \/ WriteBlue
  \/ WriteRed
  \/ IncRecords
  \/ DecId
  \/ MainSuccess

Spec == Init /\ [][Next]_vars

\* The program is one sequential thread: whenever a step is possible it is
\* eventually taken.
FairSpec == Spec /\ WF_vars(Next)

-----------------------------------------------------------------------------
(* get_team_stats on its own: every selector and every ban sequence *)

Selectors == {"red", "blue", "green", "Red", ""}

RowInit ==
  /\ argv = <<ProgName>>
  /\ fs = [p \in Paths |-> Absent]
  /\ fs0 = fs
  /\ world = [i \in Ids |-> FALSE]
  /\ pc = "get_team_stats"
  /\ error = "none"
  /\ filename = <<>>
  /\ start_id = 0
  /\ max_records = 0
  /\ sleep_time = 0
  /\ read_records = 0
  /\ current_id = 0
  /\ match \in {Match(TopId, TRUE, "classic", "ranked_solo_fives", bb, rb) :
                  bb \in AllBans, rb \in ServiceBans}
  /\ bteam_info = <<>>
  /\ rteam_info = <<>>
  /\ last_print = "nothing"
  /\ fetch_log = <<>>
  /\ accept_log = <<>>
  /\ sleeps = 0
  /\ team_arg \in Selectors
  /\ team_result = [raised |-> "none", value |-> <<>>]

CallGetTeamStats ==
  /\ pc = "get_team_stats"
  /\ team_result' = get_team_stats(team_arg, match)
  /\ pc' = "got_team_stats"
  /\ UNCHANGED <<argv, fs, fs0, world, error, main_locals, loop_locals,
                 last_print, history, team_arg>>

RowNext == CallGetTeamStats

RowSpec == RowInit /\ [][RowNext]_vars

-----------------------------------------------------------------------------
(* Properties *)

\* get_match_records has been entered and no exception has ended the process.
Entered ==
  \/ pc \in {"while", "sleep", "get_match", "filter", "open", "header", "blue",
             "red", "inc", "dec", "return"}
  \/ pc = "exited" /\ error = "none"

\* get_match_records has returned.
Returned == pc = "return" \/ (pc = "exited" /\ error = "none")

\* The rows of the output file of the run.
OutRows == fs[filename].rows

HeaderCount(rows) == Cardinality({i \in 1..Len(rows) : rows[i] = HeaderRow})

IdText(id) == StrOf(PyInt(id))

\* The filter of section 4.2 of the specification.
MeetsCriteria(m) ==
  m.exists /\ m.mode = "classic" /\ m.queue = "ranked_solo_fives"

\* C1: when get_match_records returns and max_records >= 1, the output file
\* holds exactly 1 + 2 * max_records rows: the header row first and then two
\* data rows for each accepted match.
C1_RowCount ==
  (Returned /\ max_records >= 1) =>
    /\ Len(OutRows) = 1 + 2 * max_records
    /\ OutRows[1] = HeaderRow
    /\ Len(accept_log) = max_records
    /\ \A i \in 2..Len(OutRows) : OutRows[i] # HeaderRow

C1_Witness ==
  /\ pc = "return"
  /\ max_records = 2
  /\ Len(OutRows) = 5
  /\ Len(fetch_log) > 2

\* C2: at every point of a run the output file holds at most one header row,
\* and whenever it holds a data row the header is its first row; the header
\* is written while read_records = 0, at the first accepted match, and at no
\* later accepted match.
C2_HeaderState ==
  Entered =>
    /\ HeaderCount(OutRows) <= 1
    /\ (Len(OutRows) >= 1 => OutRows[1] = HeaderRow)
    /\ (pc \in {"blue", "red", "inc"} => HeaderCount(OutRows) = 1)
    /\ (accept_log = <<>> => OutRows = <<>>)

C2_HeaderStep ==
  (Entered /\ Entered' /\ HeaderCount(OutRows') # HeaderCount(OutRows)) =>
    /\ read_records = 0
    /\ Len(accept_log) = 1
    /\ OutRows = <<>>
    /\ OutRows' = <<HeaderRow>>

\* C2 as one formula: the state part holds always, the step part of every step.
C2_HeaderOnce == []C2_HeaderState /\ [][C2_HeaderStep]_vars

C2_Witness ==
  /\ pc = "header"
  /\ read_records = 1
  /\ Len(accept_log) = 2
  /\ HeaderCount(OutRows) = 1
  /\ Len(OutRows) = 3

\* C3: the blue-team row of an accepted match is appended first and its
\* red-team row is the very next row: between loop iterations the k-th
\* accepted match owns rows 2k (blue) and 2k + 1 (red) of the file, both
\* carrying its id, and no other data row exists.
PairAt(rows, k, id) ==
  /\ Len(rows) >= 2 * k + 1
  /\ rows[2 * k][1] = IdText(id)
  /\ rows[2 * k][3] = "blue"
  /\ rows[2 * k + 1][1] = IdText(id)
  /\ rows[2 * k + 1][3] = "red"

C3_BlueThenRed ==
  /\ (pc \in {"while", "sleep", "get_match", "filter", "inc", "dec", "return"}
        \/ (pc = "exited" /\ error = "none")) =>
       /\ \A k \in 1..Len(accept_log) : PairAt(OutRows, k, accept_log[k])
       /\ (accept_log # <<>> => Len(OutRows) = 1 + 2 * Len(accept_log))
  /\ pc = "red" =>
       /\ Len(OutRows) = 2 * Len(accept_log)
       /\ OutRows[Len(OutRows)][1] = IdText(match.id)
       /\ OutRows[Len(OutRows)][3] = "blue"
       /\ \A k \in 1..(Len(accept_log) - 1) : PairAt(OutRows, k, accept_log[k])

C3_Witness ==
  /\ pc = "while"
  /\ Len(accept_log) = 2
  /\ accept_log[1] - accept_log[2] > 1
  /\ PairAt(OutRows, 2, accept_log[2])

\* C4: a fetched record takes the accepting branch exactly when it exists,
\* its mode is classic and its queue is ranked solo 5v5; only an accepted
\* record changes the output file or read_records, so between iterations the
\* ids in the data rows are exactly the ids of the fetched records that meet
\* the criteria.
C4_FilterStep ==
  /\ pc = "filter" => ((pc' = "open") <=> MeetsCriteria(match))
  /\ (Entered /\ (fs' # fs \/ read_records' # read_records)) =>
       /\ MeetsCriteria(match)
       /\ match.id = current_id
       /\ last_print = "added"
  /\ (pc = "filter" /\ ~MeetsCriteria(match)) =>
       /\ pc' = "dec"
       /\ accept_log' = accept_log

C4_FileIds ==
  (pc \in {"while", "return"} /\ Entered) =>
    /\ {OutRows[i][1] : i \in 2..Len(OutRows)}
         = {IdText(fetch_log[k]) : k \in {j \in 1..Len(fetch_log) : world[fetch_log[j]]}}
    /\ read_records = Cardinality({j \in 1..Len(fetch_log) : world[fetch_log[j]]})

\* C4 as one formula: the file holds the accepted ids always, and every step
\* obeys the filter.
C4_AcceptIffCriteria == []C4_FileIds /\ [][C4_FilterStep]_vars

C4_Witness ==
  /\ pc = "while"
  /\ Len(fetch_log) = 3
  /\ read_records = 1
  /\ match.exists
  /\ match.mode = "classic"
  /\ match.queue = "normal_draft"
  /\ Len(OutRows) = 3

\* C5: a usage error ends main with zero remote calls and the file system
\* unchanged: ValueError when the argument count is not 3 or the start id or
\* count is not an integer, OSError when the arguments are well formed and
\* the output path already exists; get_match_records is entered only when
\* none of these holds.
WellFormed(av) == Len(av) = 4 /\ IntParses(av[3]) /\ IntParses(av[4])

C5_UsageErrors ==
  /\ (pc = "exited" /\ error # "none") =>
       /\ fetch_log = <<>>
       /\ sleeps = 0
       /\ fs = fs0
       /\ last_print = "nothing"
  /\ pc = "exited" =>
       /\ (~WellFormed(argv) => error = "ValueError")
       /\ ((WellFormed(argv) /\ fs0[argv[2]].exists) => error = "OSError")
       /\ ((WellFormed(argv) /\ ~fs0[argv[2]].exists) => error = "none")
  /\ Entered => (WellFormed(argv) /\ ~fs0[argv[2]].exists)

C5_Witness ==
  /\ pc = "exited"
  /\ error = "OSError"
  /\ fs0[argv[2]].exists
  /\ fs[argv[2]].rows = EarlierRows
  /\ max_records = 2

\* C6: every fetch attempt, accepted or rejected, lowers current_id by
\* exactly 1 and only an accepted one raises read_records, by exactly 1: the
\* k-th fetch is for id start_id - (k - 1), no id is fetched twice, and when
\* the loop returns after accepting at least one match the number of fetches
\* is start_id - (id of the last accepted match) + 1, that id being the one
\* in the last two rows of the file.
AttemptOpen == pc \in {"filter", "open", "header", "blue", "red", "inc", "dec"}

AcceptOpen == pc \in {"open", "header", "blue", "red", "inc"}

C6_IdSequence ==
  Entered =>
    /\ \A k \in 1..Len(fetch_log) : fetch_log[k] = start_id - (k - 1)
    /\ \A i, j \in 1..Len(fetch_log) : i # j => fetch_log[i] # fetch_log[j]
    /\ current_id = start_id - (Len(fetch_log) - (IF AttemptOpen THEN 1 ELSE 0))
    /\ read_records = Len(accept_log) - (IF AcceptOpen THEN 1 ELSE 0)
    /\ (Returned /\ max_records >= 1) =>
         /\ Len(fetch_log) = start_id - accept_log[Len(accept_log)] + 1
         /\ OutRows[Len(OutRows) - 1][1] = IdText(accept_log[Len(accept_log)])
         /\ OutRows[Len(OutRows)][1] = IdText(accept_log[Len(accept_log)])

C6_Witness ==
  /\ pc = "return"
  /\ max_records = 1
  /\ Len(fetch_log) = 4
  /\ start_id = TopId
  /\ Len(OutRows) = 3
  /\ OutRows[2][1] = IdText(TopId - 3)
  /\ OutRows[3][1] = IdText(TopId - 3)

\* C7: the loop stops exactly when read_records reaches max_records and not
\* before.  If at least max_records acceptable ids exist at or below start_id
\* the loop eventually returns, right after accepting the max_records-th one
\* and with no further fetch; if fewer exist it never returns and goes on
\* fetching smaller ids (the model stops only where its id range ends).
AcceptableBelowStart == {i \in Ids : i <= start_id /\ world[i]}

EnoughMatches == Cardinality(AcceptableBelowStart) >= max_records

C7_StopState ==
  /\ Returned =>
       /\ read_records >= max_records
       /\ (max_records >= 0 => read_records = max_records)
       /\ (fetch_log # <<>> =>
             /\ accept_log # <<>>
             /\ fetch_log[Len(fetch_log)] = accept_log[Len(accept_log)])
       /\ EnoughMatches
  /\ pc \in {"sleep", "get_match", "filter", "open", "header", "blue", "red"} =>
       read_records < max_records
  /\ (Entered /\ ~EnoughMatches) =>
       \/ ENABLED Next
       \/ pc = "get_match" /\ current_id < IdLo

\* C7 as one formula: the stop condition always, termination when enough
\* acceptable ids exist, no termination when they do not.
C7_LoopTermination ==
  /\ []C7_StopState
  /\ [](Entered /\ EnoughMatches => <>(pc = "exited" /\ error = "none"))
  /\ [](Entered /\ ~EnoughMatches => [](pc # "exited"))

C7_Witness ==
  /\ pc = "exited"
  /\ error = "none"
  /\ max_records = 2
  /\ Len(fetch_log) = 3
  /\ Cardinality(AcceptableBelowStart) = 3

C7_WitnessNever ==
  /\ pc = "get_match"
  /\ current_id < IdLo
  /\ max_records = 2
  /\ read_records = 1

\* C8: every row get_team_stats returns for 'red' or 'blue' has exactly 24
\* fields aligned with the header, whatever ban sequence of up to 5 slots the
\* team has, with the empty string in the column of every absent ban slot;
\* any other selector raises ValueError and returns no row.
SelectedTeam == IF team_arg = "red" THEN match.red_team ELSE match.blue_team

C8_RowShape ==
  pc = "got_team_stats" =>
    IF team_arg \in {"red", "blue"}
    THEN /\ team_result.raised = "none"
         /\ Len(team_result.value) = Len(Header)
         /\ \A i \in 1..5 :
              (i > Len(SelectedTeam.bans) \/ SelectedTeam.bans[i].isNone)
                => StrOf(team_result.value[4 + i]) = ""
    ELSE /\ team_result.raised = "ValueError"
         /\ team_result.value = <<>>

\* C9: exactly one pause precedes every fetch, whatever the outcome of the
\* fetch before it: the number of sleeps equals the number of fetches made
\* plus the one about to be made.
C9_SleepBeforeFetch ==
  /\ sleeps = Len(fetch_log) + (IF pc = "get_match" THEN 1 ELSE 0)
  /\ pc = "filter" => sleeps = Len(fetch_log)

C9_Witness ==
  /\ pc = "get_match"
  /\ sleeps = 3
  /\ Len(fetch_log) = 2
  /\ Len(accept_log) = 1

\* C10: with max_records = 0 and an output path that does not exist, the run
\* accepts nothing and writes no data row, prints the success summary, and the
\* output file exists when the run finishes.
C10_FileCreated ==
  (pc = "exited" /\ error = "none" /\ max_records = 0) =>
    /\ accept_log = <<>>
    /\ fetch_log = <<>>
    /\ OutRows = <<>>
    /\ last_print = "success"
    /\ fs[filename].exists

====
